---- MODULE Spec2Model ----
(***************************************************************************)
(* Model of video-to-text-whisper: the block grouping loop of              *)
(* transcribe_with_whisper, the device selector, the ffmpeg lookup and the *)
(* batch driver with its per-job temporary directory.                      *)
(*                                                                         *)
(* Times are whole centiseconds (Whisper's timestamps are multiples of     *)
(* 0.02 s), so the "{:.2f}" rendering of a time is exact.  A text is a     *)
(* sequence of one-character strings, so that strip() and " ".join() are   *)
(* computed rather than assumed.                                           *)
(***************************************************************************)
EXTENDS Integers, Sequences, FiniteSets, TLC

\* ------------------------------------------------------------------ bounds
MaxSegs == 3
MaxTick == 3
MaxBlock == 1
MaxFiles == 2

\* ------------------------------------------------------- text primitives
\* Python's None for block_start / last_end (times are never negative).
None == -1

Whitespace == {" "}

RECURSIVE lstrip(_)
lstrip(t) ==
    IF t = <<>> THEN <<>>
    ELSE IF Head(t) \in Whitespace THEN lstrip(Tail(t)) ELSE t

RECURSIVE rstrip(_)
rstrip(t) ==
    IF t = <<>> THEN <<>>
    ELSE IF t[Len(t)] \in Whitespace THEN rstrip(SubSeq(t, 1, Len(t) - 1)) ELSE t

\* str.strip(): leading and trailing whitespace removed.
strip(t) == rstrip(lstrip(t))

\* sep.join(parts) on a list of texts.
RECURSIVE join(_, _)
join(sep, parts) ==
    IF parts = <<>> THEN <<>>
    ELSE IF Len(parts) = 1 THEN parts[1]
    ELSE parts[1] \o sep \o join(sep, Tail(parts))

\* The Python string a text stands for.
RECURSIVE Str(_)
Str(t) == IF t = <<>> THEN "" ELSE Head(t) \o Str(Tail(t))

Digit(d) == ToString(d)

\* f"{x:.2f}" of a time given in centiseconds.
Fmt2f(cs) ==
    ToString(cs \div 100) \o "." \o Digit((cs % 100) \div 10) \o Digit(cs % 10)

\* ------------------------------------------------- transcribe_with_whisper
\* A block as the three values the f-string renders.
MkBlock(block_start, last_end, current_text) ==
    [start |-> block_start, end |-> last_end, text |-> join(<<" ">>, current_text)]

\* f"[{block_start:.2f} - {last_end:.2f}] {' '.join(current_text)}"
Render(b) ==
    "[" \o Fmt2f(b.start) \o " - " \o Fmt2f(b.end) \o "] " \o Str(b.text)

\* The locals before the for loop.
LoopInit ==
    [blocks |-> <<>>, current_text |-> <<>>, block_start |-> None, last_end |-> None]

\* Slip: the block closes once the absolute end time passes the threshold.
ReachedAbsolute(block_start, last_end, block_seconds) ==
    last_end >= block_seconds * 100

\* Slip: strict comparison, so a span equal to the threshold stays open.
ReachedStrict(block_start, last_end, block_seconds) ==
    last_end - block_start > block_seconds * 100

\* The threshold test that closes a block.
Reached(block_start, last_end, block_seconds) ==
    last_end - block_start >= block_seconds * 100

\* Slip: the threshold is tested before the text is appended, so the text of
\* the segment that closes a block is lost.
LoopBodyTestFirst(st, seg, block_seconds) ==
    LET text == strip(seg.text)
        bs   == IF st.block_start = None THEN seg.start ELSE st.block_start
        le   == seg.end
    IN  IF le - bs >= block_seconds * 100
        THEN [blocks |-> Append(st.blocks, MkBlock(bs, le, st.current_text)),
              current_text |-> <<>>, block_start |-> None, last_end |-> le]
        ELSE [blocks |-> st.blocks, current_text |-> Append(st.current_text, text),
              block_start |-> bs, last_end |-> le]

\* One iteration of "for seg in result['segments']".
LoopBody(st, seg, block_seconds) ==
    LET text == strip(seg.text)
        bs   == IF st.block_start = None THEN seg.start ELSE st.block_start
        ct   == Append(st.current_text, text)
        le   == seg.end
    IN  IF Reached(bs, le, block_seconds)
        THEN [blocks |-> Append(st.blocks, MkBlock(bs, le, ct)),
              current_text |-> <<>>, block_start |-> None, last_end |-> le]
        ELSE [blocks |-> st.blocks,
              current_text |-> ct, block_start |-> bs, last_end |-> le]

\* Slip: no flush after the loop.
FlushTailMissing(st) == st.blocks

\* "if current_text: blocks.append(...)" after the loop.
FlushTail(st) ==
    IF st.current_text # <<>>
    THEN Append(st.blocks, MkBlock(st.block_start, st.last_end, st.current_text))
    ELSE st.blocks

RECURSIVE RunLoop(_, _, _)
RunLoop(st, segs, block_seconds) ==
    IF segs = <<>> THEN st
    ELSE RunLoop(LoopBody(st, Head(segs), block_seconds), Tail(segs), block_seconds)

\* The list of blocks transcribe_with_whisper returns for the model's segments.
transcribe_with_whisper(segs, block_seconds) ==
    FlushTail(RunLoop(LoopInit, segs, block_seconds))

\* ------------------------------------------------------------ get_device
\* Slip: a "cuda" preference is honoured without asking torch.
get_device_unchecked(device_preference, cuda) ==
    IF device_preference = "cuda" THEN "cuda"
    ELSE IF device_preference = "cpu" THEN "cpu"
    ELSE IF cuda THEN "cuda" ELSE "cpu"

\* core.py get_device; device_preference is "None", "cpu" or "cuda"
\* (argparse choices), cuda is torch.cuda.is_available().
get_device(device_preference, cuda) ==
    IF device_preference = "cuda" /\ cuda THEN "cuda"
    ELSE IF device_preference = "cpu" THEN "cpu"
    ELSE IF cuda THEN "cuda" ELSE "cpu"

\* main.py get_device (the single-script variant).
get_device_script(device_preference, cuda) ==
    IF device_preference # "None" /\ device_preference = "cuda" /\ cuda THEN "cuda"
    ELSE IF device_preference # "None" /\ device_preference = "cpu" THEN "cpu"
    ELSE IF cuda THEN "cuda" ELSE "cpu"

\* -------------------------------------------------------- get_ffmpeg_path
\* "system", "local", or "exit" for sys.exit(1).
get_ffmpeg_path(which_ffmpeg, local_exists) ==
    IF which_ffmpeg THEN "system"
    ELSE IF local_exists THEN "local"
    ELSE "exit"

\* ------------------------------------------------------------ file names
VIDEO_EXTENSIONS == {".mp4", ".avi", ".mov", ".mkv", ".flv", ".wmv"}

\* str.lower() on the extensions that occur in the model.
lower(ext) ==
    CASE ext = ".MKV" -> ".mkv"
      [] OTHER -> ext

\* name.lower().endswith(VIDEO_EXTENSIONS)
IsVideoName(f) == lower(f.ext) \in VIDEO_EXTENSIONS

\* os.path.splitext(video_path)[0]
splitext0(f) == f.stem

\* The files that may exist: two videos sharing a base name, and two non-videos.
Files ==
    { [stem |-> "a", ext |-> ".mp4"],
      [stem |-> "a", ext |-> ".MKV"],
      [stem |-> "n", ext |-> ".txt"],
      [stem |-> "a.mp4", ext |-> ".bak"] }

\* What os.walk can list: up to MaxFiles distinct files in some order.
Listings ==
    { l \in UNION { [1..n -> Files] : n \in 0..MaxFiles } :
        \A i, j \in DOMAIN l : i # j => l[i] # l[j] }

\* Slip: the extension test is left out of the scan.
find_videos_unfiltered(listing) == listing

\* The scan of cli.main: the listed files with a video extension, in order.
RECURSIVE find_videos_in_folder(_)
find_videos_in_folder(listing) ==
    IF listing = <<>> THEN <<>>
    ELSE IF IsVideoName(Head(listing))
         THEN <<Head(listing)>> \o find_videos_in_folder(Tail(listing))
         ELSE find_videos_in_folder(Tail(listing))

\* Slip: --all-formats is ignored.
FormatsOfFlagIgnored(all_formats, format) == format

\* formats = ["docx", "txt", "pdf"] if args.all_formats else args.format
FormatsOf(all_formats, format) ==
    IF all_formats THEN <<"docx", "txt", "pdf">> ELSE format

\* The --format lists tried (the default, one with a repeat, one of all three).
FormatArgs == { <<"docx">>, <<"txt", "txt">>, <<"pdf", "docx", "txt">> }

OutputPath(video, fmt) == splitext0(video) \o "." \o fmt

\* ================================================================= state
VARIABLES
    \* --- transcribe_with_whisper, run one loop iteration at a time
    segments,       \* result["segments"]
    block_seconds,  \* the threshold, in seconds
    seg_i,          \* index of the next segment the for loop reads
    loc,            \* the locals blocks, current_text, block_start, last_end
    gpc,            \* "idle", "loop" or "returned"
    \* --- cli.main
    args,           \* the parsed command line
    env,            \* what the machine answers: cuda, ffmpeg, the input path
    pc,             \* position in main / process_video
    device, ffmpeg_path, formats, videos,
    vi,             \* index in videos of the job being run
    printed,        \* the status messages printed by main
    exit_status,    \* None while running, then the process's exit status
    \* --- process_video
    temp_dir,       \* TRUE while the job's temporary directory exists
    audio_file,     \* TRUE once temp_audio.wav exists
    blocks,         \* the blocks transcribe_with_whisper returned
    fi,             \* index in formats of the next export
    exc,            \* TRUE while an exception is propagating
    trace,          \* the steps the current job has run, in order
    wrote,          \* the output paths the current job has created
    fs,             \* output path -> lines, for every output file on disk
    calls           \* number of process_video calls made so far

gvars == <<segments, block_seconds, seg_i, loc, gpc>>
mvars == <<args, env, pc, device, ffmpeg_path, formats, videos, vi, printed,
           exit_status>>
jvars == <<temp_dir, audio_file, blocks, fi, exc, trace, wrote, fs, calls>>
vars == <<gvars, mvars, jvars>>

\* ---------------------------------------------- inputs of the grouping loop
Texts == { <<"a">>, <<" ", "b", " ">>, <<" ">> }

\* The enumerated segment times: a grid of half seconds, in centiseconds.
Times == { k * 50 : k \in 0..MaxTick }

\* Whisper's segments: start <= end ...
Segment == { s \in [start : Times, end : Times, text : Texts] : s.start <= s.end }

\* ... and no segment starts before the previous one ends.
Ordered(segs) ==
    \A k \in DOMAIN segs : k > 1 => segs[k - 1].end <= segs[k].start

\* The worked example: segments (0,30,"a"), (31,65,"b"), (66,70,"c"), threshold 60.
ExampleSegs ==
    << [start |-> 0,    end |-> 3000, text |-> <<"a">>],
       [start |-> 3100, end |-> 6500, text |-> <<"b">>],
       [start |-> 6600, end |-> 7000, text |-> <<"c">>] >>

ExampleBlock == 60

GroupIdle ==
    /\ segments = <<>>
    /\ block_seconds = 0
    /\ seg_i = 1
    /\ loc = LoopInit
    /\ gpc = "idle"

MainIdle ==
    /\ args = [input |-> "none"]
    /\ env = [cuda |-> FALSE]
    /\ pc = "idle"
    /\ device = "None"
    /\ ffmpeg_path = "None"
    /\ formats = <<>>
    /\ videos = <<>>
    /\ vi = 0
    /\ printed = {}
    /\ exit_status = None

JobIdle ==
    /\ temp_dir = FALSE
    /\ audio_file = FALSE
    /\ blocks = <<>>
    /\ fi = 1
    /\ exc = FALSE
    /\ trace = <<>>
    /\ wrote = {}
    /\ fs = << >>
    /\ calls = 0

\* ------------------------------------------- the grouping loop, stepwise
GroupInit ==
    /\ \/ /\ \E n \in 0..MaxSegs : segments \in [1..n -> Segment]
          /\ Ordered(segments)
          /\ block_seconds \in 0..MaxBlock
       \/ /\ segments = ExampleSegs
          /\ block_seconds = ExampleBlock
    /\ seg_i = 1
    /\ loc = LoopInit
    /\ gpc = "loop"
    /\ MainIdle
    /\ JobIdle

\* for seg in result["segments"]: one iteration.
LoopIter ==
    /\ gpc = "loop"
    /\ seg_i <= Len(segments)
    /\ loc' = LoopBody(loc, segments[seg_i], block_seconds)
    /\ seg_i' = seg_i + 1
    /\ UNCHANGED <<segments, block_seconds, gpc, mvars, jvars>>

\* The loop is exhausted: flush the open block and return blocks.
LoopExit ==
    /\ gpc = "loop"
    /\ seg_i > Len(segments)
    /\ loc' = [loc EXCEPT !.blocks = FlushTail(loc)]
    /\ gpc' = "returned"
    /\ UNCHANGED <<segments, block_seconds, seg_i, mvars, jvars>>

GroupNext == LoopIter \/ LoopExit

SpecGroup == GroupInit /\ [][GroupNext]_vars

\* ================================================================ cli.main
Heading == "Video Transcription"

\* The lines an exporter writes: the heading, then one line per block.
Exported(bs) == <<Heading>> \o [k \in 1..Len(bs) |-> Render(bs[k])]

\* What model.transcribe may return for a video: speech, or nothing at all.
Transcripts == { ExampleSegs, <<>> }

\* args.input names a file, a directory with a listing, or nothing.
Inputs ==
    { [kind |-> "file", file |-> f, listing |-> <<>>] : f \in Files }
    \cup { [kind |-> "dir", file |-> [stem |-> "d", ext |-> ""], listing |-> l] :
             l \in Listings }
    \cup { [kind |-> "missing", file |-> [stem |-> "x", ext |-> ".mp4"],
            listing |-> <<>>] }

\* The state when parser.parse_args() has returned.
Init ==
    /\ args \in [device : {"None", "cpu", "cuda"},
                 format : FormatArgs,
                 all_formats : BOOLEAN,
                 block : {ExampleBlock}]
    /\ env \in [cuda : BOOLEAN, which_ffmpeg : BOOLEAN, local_ffmpeg : BOOLEAN,
                input : Inputs]
    /\ pc = "get_device"
    /\ device = "None"
    /\ ffmpeg_path = "None"
    /\ formats = <<>>
    /\ videos = <<>>
    /\ vi = 0
    /\ printed = {}
    /\ exit_status = None
    /\ JobIdle
    /\ GroupIdle

\* device = get_device(args.device)
GetDevice ==
    /\ pc = "get_device"
    /\ device' = get_device(args.device, env.cuda)
    /\ pc' = "get_ffmpeg"
    /\ UNCHANGED <<args, env, ffmpeg_path, formats, videos, vi, printed,
                   exit_status, gvars, jvars>>

\* ffmpeg_path = get_ffmpeg_path(); sys.exit(1) when neither binary exists.
GetFfmpeg ==
    /\ pc = "get_ffmpeg"
    /\ LET p == get_ffmpeg_path(env.which_ffmpeg, env.local_ffmpeg)
       IN  IF p = "exit"
           THEN /\ printed' = printed \cup {"ffmpeg not found"}
                /\ exit_status' = 1
                /\ pc' = "exit"
                /\ UNCHANGED ffmpeg_path
           ELSE /\ ffmpeg_path' = p
                /\ pc' = "dispatch"
                /\ UNCHANGED <<printed, exit_status>>
    /\ UNCHANGED <<args, env, device, formats, videos, vi, gvars, jvars>>

\* The jobs main runs and the message it prints for an input.
Discover(input) ==
    IF input.kind = "file" /\ IsVideoName(input.file)
    THEN [videos |-> <<input.file>>, msg |-> {}]
    ELSE IF input.kind = "dir"
    THEN LET found == find_videos_in_folder(input.listing)
         IN  IF found = <<>>
             THEN [videos |-> <<>>, msg |-> {"No video files found"}]
             ELSE [videos |-> found, msg |-> {"Found"}]
    ELSE [videos |-> <<>>, msg |-> {"Error: provide a path"}]

\* formats = ..., then the if / elif / else on args.input up to the first job.
Dispatch ==
    /\ pc = "dispatch"
    /\ formats' = FormatsOf(args.all_formats, args.format)
    /\ LET d == Discover(env.input)
       IN  /\ videos' = d.videos
           /\ printed' = printed \cup d.msg
    /\ vi' = 0
    /\ pc' = "loop"
    /\ UNCHANGED <<args, env, device, ffmpeg_path, exit_status, gvars, jvars>>

\* for v in videos: call process_video(v, ...), or fall off the end of main.
LoopNext ==
    /\ pc = "loop"
    /\ IF vi < Len(videos)
       THEN /\ vi' = vi + 1
            /\ calls' = calls + 1
            /\ pc' = "mkdtemp"
            /\ temp_dir' = FALSE
            /\ audio_file' = FALSE
            /\ blocks' = <<>>
            /\ fi' = 1
            /\ exc' = FALSE
            /\ trace' = <<>>
            /\ wrote' = {}
            /\ UNCHANGED <<exit_status, fs>>
       ELSE /\ exit_status' = 0
            /\ pc' = "exit"
            /\ UNCHANGED <<vi, jvars>>
    /\ UNCHANGED <<args, env, device, ffmpeg_path, formats, videos, printed, gvars>>

\* ============================================================ process_video
main_unchanged == <<args, env, device, ffmpeg_path, formats, videos, vi, printed,
                    exit_status>>

\* temp_dir = tempfile.mkdtemp(...), before the try statement.
MkTemp ==
    /\ pc = "mkdtemp"
    /\ \/ /\ temp_dir' = TRUE
          /\ pc' = "extract"
          /\ UNCHANGED exc
       \/ /\ exc' = TRUE          \* mkdtemp raised: no directory was made
          /\ pc' = "raised"
          /\ UNCHANGED temp_dir
    /\ UNCHANGED <<audio_file, blocks, fi, trace, wrote, fs, calls,
                   main_unchanged, gvars>>

\* extract_audio: subprocess.run without check, so a failing ffmpeg is silent;
\* only a failure to start the binary raises.
ExtractAudio ==
    /\ pc = "extract"
    /\ trace' = Append(trace, "extract")
    /\ \E outcome \in {"ok", "silent_failure", "raise"} :
          /\ audio_file' = (outcome = "ok")
          /\ exc' = (outcome = "raise")
          /\ pc' = IF outcome = "raise" THEN "finally" ELSE "transcribe"
    /\ UNCHANGED <<temp_dir, blocks, fi, wrote, fs, calls, main_unchanged, gvars>>

\* blocks = transcribe_with_whisper(audio_file, ...); loading a missing
\* waveform raises, and the model may fail on a present one.
Transcribe ==
    /\ pc = "transcribe"
    /\ trace' = Append(trace, "transcribe")
    /\ \/ /\ audio_file
          /\ \E t \in Transcripts :
                blocks' = transcribe_with_whisper(t, args.block)
          /\ pc' = "export"
          /\ UNCHANGED exc
       \/ /\ exc' = TRUE
          /\ pc' = "finally"
          /\ UNCHANGED blocks
    /\ UNCHANGED <<temp_dir, audio_file, fi, wrote, fs, calls, main_unchanged, gvars>>

\* The file system after a path is (over)written with lines.
WriteFile(files, path, lines) ==
    [q \in DOMAIN files \cup {path} |-> IF q = path THEN lines ELSE files[q]]

\* One turn of "for fmt in formats": save_to_docx / save_to_txt / save_to_pdf.
Export ==
    /\ pc = "export"
    /\ fi <= Len(formats)
    /\ LET path == OutputPath(videos[vi], formats[fi])
       IN  /\ trace' = Append(trace, formats[fi])
           /\ \/ /\ fs' = WriteFile(fs, path, Exported(blocks))
                 /\ wrote' = wrote \cup {path}
                 /\ fi' = fi + 1
                 /\ UNCHANGED <<exc, pc>>
              \/ /\ exc' = TRUE   \* the exporter raised, before or after creating the file
                 /\ pc' = "finally"
                 /\ \/ UNCHANGED <<fs, wrote>>
                    \/ /\ fs' = WriteFile(fs, path, <<>>)
                       /\ wrote' = wrote \cup {path}
                 /\ UNCHANGED fi
    /\ UNCHANGED <<temp_dir, audio_file, blocks, calls, main_unchanged, gvars>>

\* print("[INFO] Finished processing ..."): the try body ran to its end.
Finished ==
    /\ pc = "export"
    /\ fi > Len(formats)
    /\ trace' = Append(trace, "finished")
    /\ pc' = "finally"
    /\ UNCHANGED <<temp_dir, audio_file, blocks, fi, exc, wrote, fs, calls,
                   main_unchanged, gvars>>

\* Slip: rmtree at the end of the try body instead of in a finally clause.
CleanupOnSuccess(dir_exists, raised) == IF raised THEN dir_exists ELSE FALSE

\* Whether the temporary directory exists after the try statement: the
\* finally clause runs shutil.rmtree whether or not the body raised.
Cleanup(dir_exists, raised) == FALSE

\* finally: shutil.rmtree(temp_dir, ignore_errors=True); then the pending
\* exception, if any, leaves process_video.
Finally ==
    /\ pc = "finally"
    /\ temp_dir' = Cleanup(temp_dir, exc)
    /\ audio_file' = (audio_file /\ Cleanup(temp_dir, exc))
    /\ pc' = IF exc THEN "raised" ELSE "loop"
    /\ UNCHANGED <<blocks, fi, exc, trace, wrote, fs, calls, main_unchanged, gvars>>

\* Nothing in main catches: the exception ends the process with status 1.
Uncaught ==
    /\ pc = "raised"
    /\ exit_status' = 1
    /\ pc' = "exit"
    /\ UNCHANGED <<args, env, device, ffmpeg_path, formats, videos, vi, printed,
                   jvars, gvars>>

Next ==
    \/ GetDevice
    \/ GetFfmpeg
    \/ Dispatch
    \/ LoopNext
    \/ MkTemp
    \/ ExtractAudio
    \/ Transcribe
    \/ Export
    \/ Finished
    \/ Finally
    \/ Uncaught

Spec == Init /\ [][Next]_vars

\* ===================================================== properties: grouping
NSegs == Len(segments)

Threshold == block_seconds * 100

SegTexts == [k \in 1..NSegs |-> segments[k].text]

StrippedSegTexts == [k \in 1..NSegs |-> strip(segments[k].text)]

BlockTexts == [k \in 1..Len(loc.blocks) |-> loc.blocks[k].text]

Span(b) == b.end - b.start

\* The block made of segments i..j.
RunBlock(i, j) ==
    [start |-> segments[i].start,
     end   |-> segments[j].end,
     text  |-> join(<<" ">>, SubSeq(StrippedSegTexts, i, j))]

\* The blocks of the partition that cuts after every index of cuts.
RECURSIVE BlocksOfCuts(_, _)
BlocksOfCuts(i, cuts) ==
    IF i > NSegs THEN <<>>
    ELSE LET later == { c \in cuts : c >= i }
             j == IF later = {} THEN NSegs
                  ELSE CHOOSE c \in later : \A d \in later : c <= d
         IN  <<RunBlock(i, j)>> \o BlocksOfCuts(j + 1, cuts)

\* The first segment from i on whose end is a threshold away from the start
\* of segment i; the last segment if there is none.
GreedyEnd(i) ==
    LET hits == { j \in i..NSegs : segments[j].end - segments[i].start >= Threshold }
    IN  IF hits = {} THEN NSegs ELSE CHOOSE j \in hits : \A h \in hits : j <= h

RECURSIVE GreedyBlocks(_)
GreedyBlocks(i) ==
    IF i > NSegs THEN <<>>
    ELSE <<RunBlock(i, GreedyEnd(i))>> \o GreedyBlocks(GreedyEnd(i) + 1)

\* C1 as stated: the block texts concatenated in block order equal the
\* segment texts concatenated in segment order.
C1_ConcatenationPreserved ==
    gpc = "returned" => join(<<>>, BlockTexts) = join(<<>>, SegTexts)

\* C1 amended: the block texts joined by single spaces in block order equal
\* the whitespace-stripped segment texts joined by single spaces in segment
\* order, so every segment's stripped text appears exactly once, in its
\* original position.
C1_StrippedTextPreserved ==
    gpc = "returned" =>
        join(<<" ">>, BlockTexts) = join(<<" ">>, StrippedSegTexts)

\* Three segments, one of them changed by strip(), grouped into two blocks.
C1_Witness ==
    /\ gpc = "returned"
    /\ NSegs = 3
    /\ Len(loc.blocks) = 2
    /\ \E k \in 1..NSegs : strip(segments[k].text) # segments[k].text

\* C2: every emitted block but possibly the trailing one spans at least the
\* threshold; a block is trailing only once the loop has ended.
C2_SpanAtLeastThreshold ==
    \A k \in 1..Len(loc.blocks) :
        (gpc = "loop" \/ k < Len(loc.blocks)) => Span(loc.blocks[k]) >= Threshold

\* A full block followed by a trailing block shorter than the threshold.
C2_Witness ==
    /\ gpc = "returned"
    /\ Len(loc.blocks) >= 2
    /\ Span(loc.blocks[1]) >= Threshold
    /\ Span(loc.blocks[Len(loc.blocks)]) < Threshold

\* C3: the blocks are the blocks of a partition of the segment sequence into
\* contiguous runs (every segment in exactly one block, the last run flushed
\* whatever its span), and no block ends after the next one starts.
C3_OrderedPartition ==
    gpc = "returned" =>
        /\ \E cuts \in SUBSET (1..(NSegs - 1)) : loc.blocks = BlocksOfCuts(1, cuts)
        /\ \A k \in 1..(Len(loc.blocks) - 1) :
              loc.blocks[k].end <= loc.blocks[k + 1].start
        /\ NSegs > 0 =>
              /\ loc.blocks # <<>>
              /\ loc.blocks[Len(loc.blocks)].end = segments[NSegs].end

\* Segments were still accumulated when the loop ended, under the threshold,
\* and were flushed as the last of several blocks.
C3_Witness ==
    /\ gpc = "returned"
    /\ loc.current_text # <<>>
    /\ loc.last_end - loc.block_start < Threshold
    /\ Len(loc.blocks) >= 2
    /\ loc.blocks[Len(loc.blocks)].start = loc.block_start

\* C4: each block ends at the first segment whose end is a threshold away
\* from the block's start, and the next segment starts the next block; the
\* worked example renders as "[0.00 - 65.00] a b" and "[66.00 - 70.00] c".
C4_GreedyCrossingIncluded ==
    gpc = "returned" =>
        /\ loc.blocks = GreedyBlocks(1)
        /\ (segments = ExampleSegs /\ block_seconds = ExampleBlock) =>
              [k \in 1..Len(loc.blocks) |-> Render(loc.blocks[k])]
                  = <<"[0.00 - 65.00] a b", "[66.00 - 70.00] c">>

\* The worked example has been grouped.
C4_Witness ==
    /\ gpc = "returned"
    /\ segments = ExampleSegs
    /\ block_seconds = ExampleBlock
    /\ Len(loc.blocks) = 2

\* ======================================================= properties: driver
InJob == pc \in {"mkdtemp", "extract", "transcribe", "export", "finally"}

\* The formats the command line asks for.
Requested == IF args.all_formats THEN <<"docx", "txt", "pdf">> ELSE args.format

IsPrefix(a, b) == Len(a) <= Len(b) /\ a = SubSeq(b, 1, Len(a))

NoVideoListed ==
    \A k \in DOMAIN env.input.listing :
        lower(env.input.listing[k].ext) \notin VIDEO_EXTENSIONS

FfmpegLocated == env.which_ffmpeg \/ env.local_ffmpeg

C6_BatchNotHalted ==
    (pc = "exit" /\ FfmpegLocated /\ env.input.kind = "dir") => calls = Len(videos)

\* C7 as stated: cpu whenever the preference is unset or CUDA is unavailable,
\* otherwise the requested mode; always cpu or cuda; never cuda without CUDA.
C7_CpuWhenUnset ==
    pc # "get_device" =>
        /\ device \in {"cpu", "cuda"}
        /\ (args.device = "None" \/ ~env.cuda) => device = "cpu"
        /\ (args.device # "None" /\ env.cuda) => device = args.device
        /\ device = "cuda" => env.cuda

\* C7 amended: get_device (both variants) returns cpu whenever CUDA is
\* unavailable or the preference is cpu, and cuda whenever CUDA is available
\* and the preference is unset (auto-detection) or cuda; it always returns
\* cpu or cuda, and never cuda when CUDA is unavailable.
C7_AutoDetectWhenUnset ==
    pc # "get_device" =>
        /\ device \in {"cpu", "cuda"}
        /\ (args.device = "cpu" \/ ~env.cuda) => device = "cpu"
        /\ (args.device \in {"None", "cuda"} /\ env.cuda) => device = "cuda"
        /\ device = "cuda" => env.cuda
        /\ get_device_script(args.device, env.cuda) = device

\* No preference on a machine with CUDA: the selector has answered cuda.
C7_Witness ==
    /\ pc # "get_device"
    /\ args.device = "None"
    /\ env.cuda
    /\ device = "cuda"

\* C8 as stated: a non-zero exit status only when ffmpeg is found neither on
\* the system path nor as the bundled binary.
C8_NonZeroOnlyWithoutFfmpeg ==
    (exit_status # None /\ exit_status # 0) => ~FfmpegLocated

\* C9: a directory whose scan lists no video: no job is ever started, no
\* temporary directory made, no output written, and the run ends with the
\* "No video files found" message printed.
C9_EmptyScanRunsNothing ==
    (env.input.kind = "dir" /\ NoVideoListed) =>
        /\ calls = 0
        /\ ~InJob
        /\ ~temp_dir
        /\ DOMAIN fs = {}
        /\ (pc \in {"loop", "exit"} /\ FfmpegLocated) =>
              /\ videos = <<>>
              /\ printed = {"No video files found"}
        /\ (pc = "exit" /\ FfmpegLocated) => exit_status = 0

\* A directory holding only non-video files has been scanned and main ended.
C9_Witness ==
    /\ pc = "exit"
    /\ env.input.kind = "dir"
    /\ Len(env.input.listing) = MaxFiles
    /\ NoVideoListed
    /\ "No video files found" \in printed

\* The output paths of the export steps the current job has started.
Attempted == { OutputPath(videos[vi], trace[k]) : k \in 3..Len(trace) }

\* C10: a job runs extraction, transcription, then the exports in the order
\* of the requested formats (all three under --all-formats); a completed job
\* has written exactly the files base.fmt of the requested formats; a job
\* whose transcription raised has written nothing, and an exporter that
\* raises leaves the formats after it unwritten.
C10_OrderAndOutputs ==
    vi > 0 =>
        /\ IsPrefix(trace, <<"extract", "transcribe">> \o Requested \o <<"finished">>)
        /\ wrote \subseteq Attempted
        /\ wrote \subseteq DOMAIN fs
        /\ (trace # <<>> /\ trace[Len(trace)] = "finished") =>
              /\ ~exc
              /\ wrote = { splitext0(videos[vi]) \o "." \o Requested[k] :
                             k \in DOMAIN Requested }
              /\ \A q \in wrote : fs[q] = Exported(blocks)
        /\ (exc /\ Len(trace) <= 2) => wrote = {}
        /\ exc => \A k \in DOMAIN Requested :
                     k > Len(trace) - 2 =>
                        \/ OutputPath(videos[vi], Requested[k]) \notin wrote
                        \/ \E m \in 1..(Len(trace) - 2) : Requested[m] = Requested[k]

\* A job run with --all-formats over --format docx has completed with its
\* three files.
C10_Witness ==
    /\ pc = "finally"
    /\ ~exc
    /\ args.all_formats
    /\ args.format = <<"docx">>
    /\ Cardinality(wrote) = 3

====
